---- MODULE Spec2Model ----
(***************************************************************************)
(* Session bridging and authenticated requests of the wallet portal:       *)
(* the Token Store, the Refresh Coordinator, apiFetch, bridgeSession       *)
(* (wallet-portal/src/api.ts) and the Session Gate with its link token     *)
(* extractor (wallet-portal/src/components/WalletSessionGate.tsx).         *)
(*                                                                         *)
(* JavaScript runs to completion: a continuation whose promise has         *)
(* settled (a microtask) and React's commit of changed state run before    *)
(* any further event (network answer, navigation, click) is delivered.     *)
(* Every await on the network is a suspension point and a separate step.   *)
(***************************************************************************)
EXTENDS Integers, Sequences, FiniteSets, TLC

\* ------------------------------------------------------------------ bounds
MaxApiCalls == 2       \* outer apiFetch calls made by the callers of SpecApi
MaxGateCalls == 2      \* outer apiFetch calls made under the Gate (bridge, content)
MaxContent == 1        \* content requests of the portal pages among them
MaxNav == 1            \* location changes made by the user
MaxRetry == 1          \* clicks on "Try again"
MaxParams == 2         \* parameters in a query string given to the extractor
MaxCalls == IF MaxApiCalls > MaxGateCalls THEN MaxApiCalls ELSE MaxGateCalls

\* ------------------------------------------------------------- JS values
Null == "<null>"                      \* null / undefined
Truthy(v) == v # Null /\ v # ""       \* JS truthiness of a string-or-null

\* -------------------------------------------------------------- Token Store
\* The environment's localStorage: "ok" works, "quota" throws on setItem only
\* (a full or zero-quota store), "denied" throws on every access.
StorageModes == {"ok", "quota", "denied"}

VARIABLES
  storageMode,     \* how window.localStorage behaves in this browser
  ls,              \* localStorage["wallet_jwt"], Null when absent
  refreshPromise,  \* api.ts refreshPromise: 0 (null) or a promise id
  promises,        \* promise id -> [state, value, pc, outcome, storeAfter]
  calls,           \* outer apiFetch call -> its current frame and its history
  nCalls           \* outer calls started so far

apiVars == <<storageMode, ls, refreshPromise, promises, calls, nCalls>>

VARIABLES
  location,        \* useLocation(): [pathname, search, hash]
  status,          \* Gate state: checking | linking | ready | error
  error,           \* Gate error text, Null when none
  retryKey,        \* Gate retryKey
  sessionReady,    \* Gate sessionReady
  view,            \* what the last commit rendered: none | checking | linking | error | portal
  dirty,           \* state changed since the last commit
  e1Pending,       \* the dependencies of the bridging effect changed
  e2Pending,       \* the dependencies of the fallback effect changed
  curRun,          \* the bridge call of the bridging effect's latest run, 0 when none
  navCount         \* location changes made by the user so far

gateVars == <<location, status, error, retryKey, sessionReady, view, dirty,
              e1Pending, e2Pending, curRun, navCount>>
vars == <<apiVars, gateVars>>

\* What a call on window.localStorage gives: it threw or returned a value, and
\* the item the storage holds after it.
StorageException == "<storage exception>"
Thrown(item) == [threw |-> TRUE, value |-> StorageException, item |-> item]
Returned(v, item) == [threw |-> FALSE, value |-> v, item |-> item]

StorageGetItem(mode, item) ==
  IF mode = "denied" THEN Thrown(item) ELSE Returned(item, item)
StorageSetItem(mode, item, token) ==
  IF mode = "ok" THEN Returned(Null, token) ELSE Thrown(item)
StorageRemoveItem(mode, item) ==
  IF mode = "denied" THEN Thrown(item) ELSE Returned(Null, Null)

\* no try around the storage call: what it throws reaches the caller
Caught_Rethrown(outcome, fallback) == outcome

\* try { ... } catch { fallback }
Caught(outcome, fallback) ==
  IF outcome.threw THEN Returned(fallback, outcome.item) ELSE outcome

GetStoredToken(mode, item) == Caught(StorageGetItem(mode, item), Null).value
getStoredToken == GetStoredToken(storageMode, ls)

\* a write that never reaches the storage
SetStoredToken_Noop(mode, item, token) == item

\* the item after setStoredToken(token)
SetStoredToken(mode, item, token) == Caught(StorageSetItem(mode, item, token), Null).item
setStoredToken(token) == SetStoredToken(storageMode, ls, token)

\* the item after clearStoredToken()
ClearStoredToken(mode, item) == Caught(StorageRemoveItem(mode, item), Null).item
clearStoredToken == ClearStoredToken(storageMode, ls)

\* ------------------------------------------------------ error normalisation
\* A response body is a text; JSON.parse of it is given by JSONParse.
\* A parsed value is described by the fields apiFetch reads from it.
NoJson == [ok |-> FALSE, detailArr |-> FALSE, detailItems |-> <<>>, detail |-> Null,
           message |-> Null, error |-> Null, errorsArr |-> FALSE,
           errorsItems |-> <<>>, errors |-> Null]
EmptyJson == [NoJson EXCEPT !.ok = TRUE]
Item(msg, detail, json) == [msg |-> msg, detail |-> detail, json |-> json]

BodyDetailList == "{\"detail\":[{\"msg\":\"bad\"},{\"msg\":\"worse\"}]}"
BodyErrorX == "{\"error\":\"x\"}"
BodyRaw == "oops"
BodyEmpty == ""
BodyAllFields == "{\"detail\":\"d\",\"message\":\"m\",\"error\":\"e\",\"errors\":[\"f\"]}"
BodyMessageFirst == "{\"message\":\"m\",\"error\":\"e\",\"errors\":[\"f\"]}"
BodyErrorFirst == "{\"error\":\"e\",\"errors\":[\"f\"]}"
BodyErrorsList == "{\"errors\":[\"f\",\"g\"]}"
BodyErrorsText == "{\"errors\":\"s\"}"
BodyErrorsEmpty == "{\"errors\":[]}"
BodyObject == "{}"
BodyDetailEmpty == "{\"detail\":[],\"message\":\"m\"}"
BodyDetailMixed == "{\"detail\":[{\"detail\":\"deep\"},{\"x\":1}]}"

\* an array value that is not a text: [] is truthy and String([]) is ""
EmptyArray == "<array of length 0>"
SomeArray == "<array>"

JSONParse(text) ==
  CASE text = BodyDetailList ->
         [EmptyJson EXCEPT !.detailArr = TRUE,
            !.detailItems = <<Item("bad", Null, "{\"msg\":\"bad\"}"),
                              Item("worse", Null, "{\"msg\":\"worse\"}")>>]
    [] text = BodyErrorX -> [EmptyJson EXCEPT !.error = "x"]
    [] text = BodyAllFields ->
         [EmptyJson EXCEPT !.detail = "d", !.message = "m", !.error = "e",
            !.errorsArr = TRUE, !.errorsItems = <<"f">>, !.errors = SomeArray]
    [] text = BodyMessageFirst ->
         [EmptyJson EXCEPT !.message = "m", !.error = "e",
            !.errorsArr = TRUE, !.errorsItems = <<"f">>, !.errors = SomeArray]
    [] text = BodyErrorFirst ->
         [EmptyJson EXCEPT !.error = "e",
            !.errorsArr = TRUE, !.errorsItems = <<"f">>, !.errors = SomeArray]
    [] text = BodyErrorsList ->
         [EmptyJson EXCEPT !.errorsArr = TRUE, !.errorsItems = <<"f", "g">>,
            !.errors = SomeArray]
    [] text = BodyErrorsText -> [EmptyJson EXCEPT !.errors = "s"]
    [] text = BodyErrorsEmpty ->
         [EmptyJson EXCEPT !.errorsArr = TRUE, !.errors = EmptyArray]
    [] text = BodyObject -> EmptyJson
    [] text = BodyDetailEmpty -> [EmptyJson EXCEPT !.detailArr = TRUE, !.message = "m"]
    [] text = BodyDetailMixed ->
         [EmptyJson EXCEPT !.detailArr = TRUE,
            !.detailItems = <<Item(Null, "deep", "{\"detail\":\"deep\"}"),
                              Item(Null, Null, "{\"x\":1}")>>]
    [] OTHER -> NoJson

Separator == " * "      \* stands for the " • " of the source

RECURSIVE JoinItems(_)
JoinItems(items) ==
  IF items = <<>> THEN ""
  ELSE LET it == Head(items)
           one == IF Truthy(it.msg) THEN it.msg
                  ELSE IF Truthy(it.detail) THEN it.detail ELSE it.json
       IN IF Len(items) = 1 THEN one
          ELSE one \o Separator \o JoinItems(Tail(items))

Or_Second(a, b) == b                       \* the right operand, whatever the left

Or(a, b) == IF Truthy(a) THEN a ELSE b     \* a || b on strings

FallbackMessage(st) == "Request failed (" \o ToString(st) \o ")"

\* String(v), as new Error(v) takes its message
StringOf(v) == IF v = EmptyArray THEN "" ELSE v

\* the message of the Error apiFetch throws for a non-ok response
NormalizedMessage(bodyText, st) ==
  LET parsed == JSONParse(bodyText)
      firstError == IF parsed.errorsArr /\ Len(parsed.errorsItems) > 0
                    THEN parsed.errorsItems[1] ELSE parsed.errors
      message ==
        IF ~parsed.ok THEN bodyText
        ELSE IF parsed.detailArr THEN Or(JoinItems(parsed.detailItems), bodyText)
        ELSE Or(parsed.detail, Or(parsed.message, Or(parsed.error,
                Or(firstError, bodyText))))
  IN StringOf(Or(message, FallbackMessage(st)))

NetworkErrorMessage == "Failed to fetch"


\* -------------------------------------------------------- link token extractor
\* A URL string is a sequence of atoms: the delimiters "?", "&", "=", "#", "/"
\* and words standing for the text between them ("token" is the parameter name).
StartsWith(str, a) == Len(str) > 0 /\ str[1] = a
DropFirst(str) == SubSeq(str, 2, Len(str))

RECURSIVE IndexOf(_, _, _)
IndexOf(str, a, from) ==          \* the first index >= from holding a, 0 if none
  IF from > Len(str) THEN 0
  ELSE IF str[from] = a THEN from ELSE IndexOf(str, a, from + 1)

RECURSIVE Split(_, _)
Split(str, sep) ==                \* String.prototype.split(sep)
  LET i == IndexOf(str, sep, 1)
  IN IF i = 0 THEN <<str>>
     ELSE <<SubSeq(str, 1, i - 1)>> \o Split(SubSeq(str, i + 1, Len(str)), sep)

\* new URLSearchParams(init): a leading "?" is dropped, empty pieces are
\* skipped, each piece is cut at its first "=". (No atom needs decoding.)
ParsePair(piece) ==
  LET i == IndexOf(piece, "=", 1)
  IN IF i = 0 THEN [name |-> piece, value |-> <<>>]
     ELSE [name |-> SubSeq(piece, 1, i - 1),
           value |-> SubSeq(piece, i + 1, Len(piece))]

RECURSIVE ParsePieces(_)
ParsePieces(pieces) ==
  IF pieces = <<>> THEN <<>>
  ELSE IF Head(pieces) = <<>> THEN ParsePieces(Tail(pieces))
  ELSE <<ParsePair(Head(pieces))>> \o ParsePieces(Tail(pieces))

URLSearchParams(init) ==
  ParsePieces(Split(IF StartsWith(init, "?") THEN DropFirst(init) ELSE init, "&"))

TokenName == <<"token">>

\* params.get(name): the first value, <<>> with found = FALSE when absent
RECURSIVE ParamsGet(_, _)
ParamsGet(params, name) ==
  IF params = <<>> THEN [found |-> FALSE, value |-> <<>>]
  ELSE IF Head(params).name = name THEN [found |-> TRUE, value |-> Head(params).value]
  ELSE ParamsGet(Tail(params), name)

IsOther(pair) == pair.name # TokenName
ParamsDeleteToken_Kept(params) == params       \* nothing deleted
ParamsDeleteToken(params) == SelectSeq(params, IsOther)

RECURSIVE ParamsToString(_)
ParamsToString(params) ==
  IF params = <<>> THEN <<>>
  ELSE LET one == Head(params).name \o <<"=">> \o Head(params).value
       IN IF Len(params) = 1 THEN one
          ELSE one \o <<"&">> \o ParamsToString(Tail(params))

normalizePath_AsIs(pathname) == pathname      \* no "/" put in front

normalizePath(pathname) ==        \* <<>> stands for undefined
  IF pathname = <<>> THEN <<>>
  ELSE IF StartsWith(pathname, "/") THEN pathname ELSE <<"/">> \o pathname

NoLinkToken == [found |-> FALSE, token |-> <<>>, cleanedSearch |-> <<>>,
                cleanedHash |-> <<>>, targetPathname |-> <<>>]

extractLinkToken(loc) ==
  LET searchParams == URLSearchParams(loc.search)
      searchToken == ParamsGet(searchParams, TokenName)
      rawHash == IF StartsWith(loc.hash, "#") THEN DropFirst(loc.hash) ELSE loc.hash
      hashParts == Split(rawHash, "?")
      hashPathPart == hashParts[1]
      hashQueryPart == IF Len(hashParts) >= 2 THEN hashParts[2] ELSE <<>>
      hashParams == URLSearchParams(hashQueryPart)
      hashToken == ParamsGet(hashParams, TokenName)
      cleanedHashParams == ParamsToString(ParamsDeleteToken(hashParams))
      cleanedHash ==
        IF hashPathPart # <<>> \/ cleanedHashParams # <<>>
        THEN <<"#">> \o hashPathPart \o
             (IF cleanedHashParams # <<>> THEN <<"?">> \o cleanedHashParams ELSE <<>>)
        ELSE <<>>
      normalized == normalizePath(hashPathPart)
  IN IF searchToken.value # <<>>
     THEN [found |-> TRUE, token |-> searchToken.value,
           cleanedSearch |-> ParamsToString(ParamsDeleteToken(searchParams)),
           cleanedHash |-> loc.hash, targetPathname |-> loc.pathname]
     ELSE IF rawHash = <<>> THEN NoLinkToken
     ELSE IF hashToken.value = <<>> THEN NoLinkToken
     ELSE [found |-> TRUE, token |-> hashToken.value,
           cleanedSearch |-> IF StartsWith(loc.search, "?")
                             THEN DropFirst(loc.search) ELSE loc.search,
           cleanedHash |-> cleanedHash,
           targetPathname |-> IF normalized # <<>> THEN normalized ELSE loc.pathname]

Loc(pathname, search, hash) == [pathname |-> pathname, search |-> search, hash |-> hash]

\* a navigation that puts the consumed credential back into the query
NavigateTarget_Uncleaned(data, pathname) ==
  Loc(pathname, <<"?", "token", "=">> \o data.token, data.cleanedHash)

\* the location navigate(...) replaces the current one with (lines 97-106)
NavigateTarget(data, pathname) ==
  Loc(IF data.targetPathname # <<>> THEN data.targetPathname ELSE pathname,
      IF data.cleanedSearch # <<>> THEN <<"?">> \o data.cleanedSearch ELSE <<>>,
      data.cleanedHash)

\* the locations the portal is opened at or moved to
PlainLoc == Loc(<<"/", "w">>, <<>>, <<>>)
QueryLoc == Loc(<<"/", "w">>, <<"?", "token", "=", "L1", "&", "x", "=", "1">>, <<>>)
HashLoc == Loc(<<"/", "w">>, <<>>, <<"#", "/", "p", "?", "token", "=", "L2", "&", "y", "=", "2">>)
BothLoc == Loc(<<"/", "w">>, <<"?", "token", "=", "L1">>, <<"#", "p", "?", "token", "=", "L2">>)
Locations == {PlainLoc, QueryLoc, HashLoc, BothLoc}

\* Inputs of the extractor. A parameter is written as a piece: name, "=", value;
\* the value may be empty and the "=" may be missing.
SearchPieces == {<<"token", "=", "L1">>, <<"token", "=">>, <<"x", "=", "1">>, <<"z">>}
HashPieces == {<<"token", "=", "L2">>, <<"token", "=">>, <<"y", "=", "2">>}
HashPaths == {<<>>, <<"/", "p">>, <<"p">>}

PieceLists(pieces) == UNION {[1..n -> pieces] : n \in 0..MaxParams}

RECURSIVE JoinPieces(_)
JoinPieces(ps) ==                  \* the pieces written with "&" between them
  IF ps = <<>> THEN <<>>
  ELSE IF Len(ps) = 1 THEN ps[1]
  ELSE ps[1] \o <<"&">> \o JoinPieces(Tail(ps))

SearchOf(ps) == IF ps = <<>> THEN <<>> ELSE <<"?">> \o JoinPieces(ps)
HashOf(path, ps) == <<"#">> \o path \o SearchOf(ps)

ExtractSearches == {SearchOf(ps) : ps \in PieceLists(SearchPieces)}
ExtractHashes ==
  {<<>>} \cup {HashOf(path, ps) : path \in HashPaths, ps \in PieceLists(HashPieces)}
ExtractLocations ==
  {Loc(<<"/", "w">>, search, hash) : search \in ExtractSearches, hash \in ExtractHashes}


\* ------------------------------------------------------------ the network
ErrBodies == {BodyRaw, BodyErrorX}       \* bodies of non-ok responses
\* the bodies and statuses the error normalisation is tried on
NormalizeBodies ==
  {BodyDetailList, BodyErrorX, BodyRaw, BodyEmpty, BodyAllFields, BodyMessageFirst,
   BodyErrorFirst, BodyErrorsList, BodyErrorsText, BodyErrorsEmpty, BodyObject,
   BodyDetailEmpty, BodyDetailMixed}
ErrorStatuses == {400, 401, 403, 404, 422, 500}
Statuses == {200, 401, 500}
RefreshTokens == {"R1"}                  \* access tokens the refresh endpoint issues
BridgeTokens == {"B1"}             \* access tokens the bridge endpoint issues
NoToken == Null                          \* a JSON answer without access_token
BadJson == "<bad json>"                  \* res.json() rejects

BridgePath == "/wallet-portal/sessions/bridge"
ContentPath == "/wallet/balance"
BridgeNoTokenMessage == "Wallet session created without access token."

\* ------------------------------------------------------------------ calls
Calls == 1..MaxCalls
PromiseIds == 1..MaxCalls   \* an outer call creates at most one refresh promise

NoCall == [pc |-> "unused", kind |-> "api", path |-> Null, body |-> <<>>,
           allowRefresh |-> TRUE, consumedBody |-> Null, awaiting |-> 0,
           promise |-> 0, joined |-> FALSE, refreshed |-> Null, sent |-> <<>>,
           resps |-> <<>>, sends |-> 0, nRefresh |-> 0, err |-> Null, result |-> Null,
           cancelled |-> FALSE, ltd |-> NoLinkToken, locPathname |-> <<>>]

NoPromise == [state |-> "unused", value |-> Null, pc |-> "none",
              outcome |-> "none", storeAfter |-> Null]

Request(path, body, auth) == [path |-> path, body |-> body, auth |-> auth]
Response(st) == [status |-> st, body |-> Null, reads |-> 0]

LastResp(c) == calls[c].resps[Len(calls[c].resps)]
ResOk(st) == st >= 200 /\ st <= 299

\* the repeated request reusing the headers built for the first one
Frame_Stale(call, allowRefresh) ==
  [call EXCEPT !.pc = "fetch", !.allowRefresh = allowRefresh,
               !.consumedBody = Null, !.sends = @ + 1,
               !.sent = Append(@, Request(call.path, call.body,
                           IF call.sent = <<>> THEN getStoredToken
                           ELSE call.sent[Len(call.sent)].auth))]

\* apiFetch lines 61-69: read the store, attach the bearer value, send.
Frame(call, allowRefresh) ==
  [call EXCEPT !.pc = "fetch", !.allowRefresh = allowRefresh,
               !.consumedBody = Null, !.sends = @ + 1,
               !.sent = Append(@, Request(call.path, call.body, getStoredToken))]

NewCall(kind, path, body) ==
  Frame([NoCall EXCEPT !.kind = kind, !.path = path, !.body = body], TRUE)

\* A continuation is ready to run as a microtask.
RefreshSettledFor(c) ==
  /\ calls[c].pc = "awaitRefresh"
  /\ promises[calls[c].awaiting].state = "fulfilled"

\* the caller of a content request is about to see how it settled
ContentSettled(c) == calls[c].kind = "api" /\ calls[c].pc \in {"done", "failed"}

ApiMicrotask == \E c \in Calls : RefreshSettledFor(c) \/ ContentSettled(c)

\* a call whose caller has seen its outcome: no local of it is read again; what
\* a bridge call sent and was given stays on record (its credential, its send
\* counts, the access token)
Observed(call) ==
  IF call.kind = "bridge"
  THEN [NoCall EXCEPT !.pc = "observed", !.kind = call.kind, !.body = call.body,
                      !.sends = call.sends, !.nRefresh = call.nRefresh,
                      !.result = call.result]
  ELSE [NoCall EXCEPT !.pc = "observed", !.kind = call.kind]


BridgeMicrotask ==
  \E c \in Calls : /\ calls[c].kind = "bridge"
                   /\ calls[c].pc \in {"done", "failed", "bridgeOk", "bridgeFailed"}

\* Nothing is left to run before the next event is delivered.
Idle == ~ApiMicrotask /\ ~BridgeMicrotask /\ ~dirty

\* ------------------------------------------------------- Refresh Coordinator
\* the check of line 123 left out: every caller starts an exchange
StartsNewRefresh_Always == TRUE

\* line 123: if (!refreshPromise)
StartsNewRefresh == refreshPromise = 0

FreePromise == CHOOSE p \in PromiseIds :
                 /\ promises[p].state = "unused"
                 /\ \A q \in PromiseIds : promises[q].state = "unused" => p <= q

\* refresh exchanges whose async function (lines 124-147) has not finished
RefreshesInFlight == {p \in PromiseIds : promises[p].state = "pending"}

\* lines 144-146 and the promise of the async function settling with v
Settled(p, v, outcome, item) ==
  [promises EXCEPT ![p] = [state |-> "fulfilled", value |-> v, pc |-> "settled",
                           outcome |-> outcome,
                           storeAfter |-> GetStoredToken(storageMode, item)]]

\* refreshAccessToken() up to its return (lines 121-150). With throwsSync the
\* fetch call of line 126 throws before the first await: catch and finally run
\* inside the call of the async function, and line 124 assigns its promise after.
CallRefresh(c, base, throwsSync) ==
  IF StartsNewRefresh
  THEN /\ \E p \in PromiseIds : promises[p].state = "unused"
       /\ LET p == FreePromise
          IN /\ promises' =
                  IF throwsSync THEN Settled(p, Null, "syncthrow", ls)
                  ELSE [promises EXCEPT ![p] = [NoPromise EXCEPT !.state = "pending",
                                                                 !.pc = "fetch"]]
             /\ refreshPromise' = p
             /\ calls' = [base EXCEPT ![c].awaiting = p, ![c].promise = p,
                                      ![c].joined = FALSE,
                                       ![c].nRefresh = @ + 1, ![c].pc = "awaitRefresh"]
  ELSE /\ ~throwsSync
       /\ promises' = promises
       /\ refreshPromise' = refreshPromise
       /\ calls' = [base EXCEPT ![c].awaiting = refreshPromise,
                                ![c].promise = refreshPromise,
                                 ![c].joined = (promises[refreshPromise].state = "pending"),
                                 ![c].nRefresh = @ + 1, ![c].pc = "awaitRefresh"]

\* line 126 answered: the fetch of the refresh endpoint resolves with a status
RefreshFetchRespond(p) ==
  /\ Idle
  /\ promises[p].pc = "fetch"
  /\ \E st \in Statuses :
       promises' = [promises EXCEPT ![p].pc = IF ResOk(st) THEN "json" ELSE "text"]
  /\ UNCHANGED <<storageMode, ls, refreshPromise, calls, nCalls, gateVars>>

\* line 126 rejects (network error): catch (142-143), finally (144-146)
RefreshFetchReject(p) ==
  /\ Idle
  /\ promises[p].pc = "fetch"
  /\ promises' = Settled(p, Null, "reject", ls)
  /\ refreshPromise' = 0
  /\ UNCHANGED <<storageMode, ls, calls, nCalls, gateVars>>

\* lines 130-134: a non-ok answer, its text read (or failed to read)
RefreshTextDone(p) ==
  /\ Idle
  /\ promises[p].pc = "text"
  /\ ls' = clearStoredToken
  /\ promises' = Settled(p, Null, "nonok", ls')
  /\ refreshPromise' = 0
  /\ UNCHANGED <<storageMode, calls, nCalls, gateVars>>

\* lines 135-141: an ok answer parsed; res.json() may reject (142-143)
RefreshJsonDone(p) ==
  /\ Idle
  /\ promises[p].pc = "json"
  /\ \E data \in RefreshTokens \cup {NoToken, BadJson} :
       IF data = BadJson
       THEN /\ ls' = ls
            /\ promises' = Settled(p, Null, "badjson", ls')
       ELSE IF Truthy(data)
       THEN /\ ls' = setStoredToken(data)
            /\ promises' = Settled(p, data, "token", ls')
       ELSE /\ ls' = clearStoredToken
            /\ promises' = Settled(p, Null, "notoken", ls')
  /\ refreshPromise' = 0
  /\ UNCHANGED <<storageMode, calls, nCalls, gateVars>>

\* ------------------------------------------------------------------ apiFetch
\* line 65 answered: the continuation runs to its next await
FetchResponds(c, statuses) ==
  /\ Idle
  /\ calls[c].pc = "fetch"
  /\ \E st \in statuses :
       calls' = [calls EXCEPT
                   ![c].resps = Append(@, Response(st)),
                   ![c].pc = IF st = 401 /\ calls[c].allowRefresh THEN "body401"
                             ELSE IF ~ResOk(st) THEN "bodyErr" ELSE "json"]
  /\ UNCHANGED <<storageMode, ls, refreshPromise, promises, nCalls, gateVars>>

FetchRespond(c) == FetchResponds(c, Statuses)

\* line 65 rejects: apiFetch rejects with the network error
FetchReject(c) ==
  /\ Idle
  /\ calls[c].pc = "fetch"
  /\ calls' = [calls EXCEPT ![c].pc = "failed", ![c].err = NetworkErrorMessage]
  /\ UNCHANGED <<storageMode, ls, refreshPromise, promises, nCalls, gateVars>>

\* readBodyText (lines 72-80) reading the body b of the last response
BodyConsumed(call, b) ==
  [call EXCEPT !.consumedBody = b,
               !.resps[Len(call.resps)].body = b,
               !.resps[Len(call.resps)].reads = @ + 1]

\* readBodyText reading the response again on every call
ReadBodyText_Uncached(call, b) == BodyConsumed(call, b)

\* readBodyText (lines 72-80): the text read before is returned, else b is read
ReadBodyText(call, b) ==
  IF call.consumedBody # Null THEN call ELSE BodyConsumed(call, b)

\* lines 82-84: the 401 body read, then refreshAccessToken() called
BodyRead401(c) ==
  /\ Idle
  /\ calls[c].pc = "body401"
  /\ \E b \in ErrBodies, throwsSync \in BOOLEAN :
       CallRefresh(c, [calls EXCEPT ![c] = ReadBodyText(calls[c], b)], throwsSync)
  /\ UNCHANGED <<storageMode, ls, nCalls, gateVars>>


\* A settled promise that nothing references any more is garbage.
Collected(p, c) ==
  IF refreshPromise # p /\ \A d \in Calls \ {c} : calls[d].awaiting # p
  THEN [promises EXCEPT ![p] = [NoPromise EXCEPT !.state = "collected"]]
  ELSE promises

\* a joiner reading the Token Store instead of awaiting the shared promise
AwaitedValue_FromStore(c) ==
  IF calls[c].joined THEN getStoredToken ELSE promises[calls[c].awaiting].value

\* lines 149 and 84: every caller awaits the one promise and gets its value
AwaitedValue(c) == promises[calls[c].awaiting].value

\* the test of line 85 left out: the request is repeated whatever the refresh gave
RetryAfterRefresh_Always(refreshed) == TRUE

\* line 85: if (refreshed)
RetryAfterRefresh(refreshed) == Truthy(refreshed)

\* the recursive call made with the default allowRefresh
RetryAllowRefresh_True == TRUE

\* line 86: the allowRefresh argument of the recursive call
RetryAllowRefresh == FALSE

\* lines 84-88 resumed with the settled refresh, then lines 90-117 when the
\* refresh gave nothing: readBodyText returns the cached text.
ResumeAfterRefresh(c) ==
  /\ RefreshSettledFor(c)
  /\ LET refreshed == AwaitedValue(c)
         call == [calls[c] EXCEPT !.refreshed = refreshed, !.awaiting = 0]
         read == ReadBodyText(call, LastResp(c).body)
     IN calls' = [calls EXCEPT ![c] =
          IF RetryAfterRefresh(refreshed)
          THEN Frame(call, RetryAllowRefresh)
          ELSE [read EXCEPT !.pc = "failed",
                  !.err = NormalizedMessage(read.consumedBody, LastResp(c).status)]]
  /\ promises' = Collected(calls[c].awaiting, c)
  /\ UNCHANGED <<storageMode, ls, refreshPromise, nCalls, gateVars>>

\* lines 90-117: a non-ok answer that is not refreshed: read, normalise, throw
BodyReadsErr(c, bodies) ==
  /\ Idle
  /\ calls[c].pc = "bodyErr"
  /\ \E b \in bodies :
       calls' = [calls EXCEPT ![c] =
          [ReadBodyText(calls[c], b) EXCEPT !.pc = "failed",
              !.err = NormalizedMessage(b, LastResp(c).status)]]
  /\ UNCHANGED <<storageMode, ls, refreshPromise, promises, nCalls, gateVars>>

BodyReadErr(c) == BodyReadsErr(c, ErrBodies)

\* what the JSON of an ok answer carries as access_token
OkData(kind) == IF kind = "bridge" THEN BridgeTokens \cup {NoToken} ELSE {NoToken}

\* line 118: return res.json()
JsonDone(c) ==
  /\ Idle
  /\ calls[c].pc = "json"
  /\ \E data \in OkData(calls[c].kind) :
       calls' = [calls EXCEPT ![c].pc = "done", ![c].result = data,
                              ![c].resps[Len(calls[c].resps)].reads = @ + 1]
  /\ UNCHANGED <<storageMode, ls, refreshPromise, promises, nCalls, gateVars>>

\* the page's then/catch runs with the settled request
ContentObserve(c) ==
  /\ ContentSettled(c)
  /\ calls' = [calls EXCEPT ![c] = Observed(@)]
  /\ UNCHANGED <<storageMode, ls, refreshPromise, promises, nCalls, gateVars>>

\* a page of the portal calls apiFetch(path) (Dashboard, usePortalProfile, ...)
ContentRequest ==
  /\ Idle
  /\ view = "portal"
  /\ nCalls < MaxGateCalls
  /\ Cardinality({c \in Calls : calls[c].pc # "unused" /\ calls[c].kind = "api"}) < MaxContent
  /\ calls' = [calls EXCEPT ![nCalls + 1] = NewCall("api", ContentPath, <<>>)]
  /\ nCalls' = nCalls + 1
  /\ UNCHANGED <<storageMode, ls, refreshPromise, promises, gateVars>>


\* ------------------------------------------------------------- bridgeSession
\* the test of line 163 left out: any answer is taken for a session
HasAccessToken_Any(res) == TRUE

\* line 163: res?.access_token
HasAccessToken(res) == Truthy(res)

\* lines 163-167 after apiFetch settled: a rejection passes through, an answer
\* without access_token throws, otherwise the token is stored and res returned
BridgeContinue(c) ==
  /\ calls[c].kind = "bridge"
  /\ calls[c].pc \in {"done", "failed"}
  /\ IF calls[c].pc = "failed"
     THEN /\ calls' = [calls EXCEPT ![c].pc = "bridgeFailed"]
          /\ ls' = ls
     ELSE IF ~HasAccessToken(calls[c].result)
     THEN /\ calls' = [calls EXCEPT ![c].pc = "bridgeFailed",
                                    ![c].err = BridgeNoTokenMessage]
          /\ ls' = ls
     ELSE /\ calls' = [calls EXCEPT ![c].pc = "bridgeOk"]
          /\ ls' = setStoredToken(calls[c].result)
  /\ UNCHANGED <<storageMode, refreshPromise, promises, nCalls, gateVars>>

\* -------------------------------------------------------------- Session Gate
NO_SESSION_MESSAGE ==
  "Missing wallet session. Open the portal from the SR Tech app or use a valid wallet link."
BridgeFallbackMessage == "Failed to create wallet session."

\* lines 132-157: what a render with this status shows
ViewOf(st) == IF st = "ready" THEN "portal" ELSE st

\* lines 93-107: the bridge resolved
GateThen(c) ==
  /\ calls[c].pc = "bridgeOk"
  /\ calls' = [calls EXCEPT ![c] = Observed(@)]
  /\ IF calls[c].cancelled
     THEN UNCHANGED gateVars
     ELSE /\ sessionReady' = TRUE
          /\ status' = "ready"
          /\ location' = NavigateTarget(calls[c].ltd, calls[c].locPathname)
          /\ e1Pending' = TRUE
          /\ e2Pending' = TRUE
          /\ dirty' = TRUE
          /\ UNCHANGED <<error, retryKey, view, curRun, navCount>>
  /\ UNCHANGED <<storageMode, ls, refreshPromise, promises, nCalls>>

\* the catch handler leaving the Gate as it is
GateCatch_Silent(c) ==
  /\ calls[c].pc = "bridgeFailed"
  /\ calls' = [calls EXCEPT ![c] = Observed(@)]
  /\ UNCHANGED <<storageMode, ls, refreshPromise, promises, nCalls, gateVars>>

\* lines 108-112: the bridge rejected
GateCatch(c) ==
  /\ calls[c].pc = "bridgeFailed"
  /\ calls' = [calls EXCEPT ![c] = Observed(@)]
  /\ IF calls[c].cancelled
     THEN UNCHANGED gateVars
     ELSE /\ error' = Or(calls[c].err, BridgeFallbackMessage)
          /\ status' = "error"
          /\ dirty' = TRUE
          /\ UNCHANGED <<location, retryKey, sessionReady, view, e1Pending,
                         e2Pending, curRun, navCount>>
  /\ UNCHANGED <<storageMode, ls, refreshPromise, promises, nCalls>>

\* where navigate (lines 97-106) leads from a location
Navigated(loc) ==
  IF extractLinkToken(loc).found
  THEN NavigateTarget(extractLinkToken(loc), loc.pathname) ELSE loc

\* every location the router can hold, and useMemo's value for each (line 83)
KnownLocations ==
  Locations \cup {Navigated(loc) : loc \in Locations}
            \cup {Navigated(Navigated(loc)) : loc \in Locations}
linkTokenData == [loc \in KnownLocations |-> extractLinkToken(loc)]

HasLinkToken(loc) == linkTokenData[loc].found

\* the router delivers a new location (a link, the address bar, history)
LocationChange ==
  /\ Idle
  /\ view # "none"
  /\ navCount < MaxNav
  /\ \E loc \in Locations :
       /\ HasLinkToken(loc) => nCalls < MaxGateCalls
       /\ location' = loc
       /\ e2Pending' = (HasLinkToken(location) \/ HasLinkToken(loc))
  /\ e1Pending' = TRUE
  /\ dirty' = TRUE
  /\ navCount' = navCount + 1
  /\ UNCHANGED <<apiVars, status, error, retryKey, sessionReady, view, curRun>>

\* line 150: "Try again" in the error view
RetryClick ==
  /\ Idle
  /\ view = "error"
  /\ retryKey < MaxRetry
  /\ HasLinkToken(location) => nCalls < MaxGateCalls
  /\ retryKey' = retryKey + 1
  /\ e1Pending' = TRUE
  /\ e2Pending' = TRUE
  /\ dirty' = TRUE
  /\ UNCHANGED <<apiVars, location, status, error, sessionReady, view, curRun, navCount>>

\* the fallback effect taking every visit for an established session
FallbackReady_Always == TRUE

\* lines 120-130: the fallback effect decides ready or the missing session
FallbackReady == sessionReady

\* A commit: render (lines 132-157) with the state as it is, then the effects
\* whose dependencies changed, in order: the cleanup of the bridging effect's
\* previous run (114-116), the bridging effect (85-113), the fallback effect
\* (120-130).
Commit ==
  /\ dirty
  /\ LET data == linkTokenData[location]
         bridging == e1Pending /\ data.found
         fallback == e2Pending /\ ~data.found
         c == nCalls + 1
         cleaned == IF e1Pending /\ curRun # 0 /\ calls[curRun].pc # "observed"
                    THEN [calls EXCEPT ![curRun].cancelled = TRUE] ELSE calls
     IN /\ view' = ViewOf(status)
        /\ bridging => nCalls < MaxGateCalls
        /\ IF bridging
           THEN /\ calls' = [cleaned EXCEPT ![c] =
                     [NewCall("bridge", BridgePath, data.token) EXCEPT
                         !.ltd = data, !.locPathname = location.pathname]]
                /\ nCalls' = c
                /\ curRun' = c
                /\ status' = "linking"
                /\ error' = Null
                /\ ls' = ls
           ELSE /\ calls' = cleaned
                /\ nCalls' = nCalls
                /\ curRun' = IF e1Pending THEN 0 ELSE curRun
                /\ IF fallback
                   THEN IF FallbackReady
                        THEN /\ status' = "ready"
                             /\ error' = Null
                             /\ ls' = ls
                        ELSE /\ ls' = clearStoredToken
                             /\ error' = NO_SESSION_MESSAGE
                             /\ status' = "error"
                   ELSE UNCHANGED <<status, error, ls>>
        /\ dirty' = (ViewOf(status') # view' \/ error' # error)
  /\ e1Pending' = FALSE
  /\ e2Pending' = FALSE
  /\ UNCHANGED <<storageMode, refreshPromise, promises, location, retryKey,
                 sessionReady, navCount>>

\* any caller of the module calls apiFetch(path)
CallerRequest ==
  /\ Idle
  /\ nCalls < MaxApiCalls
  /\ calls' = [calls EXCEPT ![nCalls + 1] = NewCall("api", ContentPath, <<>>)]
  /\ nCalls' = nCalls + 1
  /\ UNCHANGED <<storageMode, ls, refreshPromise, promises, gateVars>>

\* any caller of the module calls clearStoredToken() (lines 22-29)
CallerClear ==
  /\ Idle
  /\ ls # clearStoredToken
  /\ ls' = clearStoredToken
  /\ UNCHANGED <<storageMode, refreshPromise, promises, calls, nCalls, gateVars>>

\* ----------------------------------------------------------- specification
Init ==
  /\ storageMode \in StorageModes
  /\ ls \in IF storageMode = "denied" THEN {Null} ELSE {Null, "T0"}
  /\ refreshPromise = 0
  /\ promises = [p \in PromiseIds |-> NoPromise]
  /\ calls = [c \in Calls |-> NoCall]
  /\ nCalls = 0
  /\ location \in Locations
  /\ status = "checking"
  /\ error = Null
  /\ retryKey = 0
  /\ sessionReady = FALSE
  /\ view = "none"
  /\ dirty = TRUE
  /\ e1Pending = TRUE
  /\ e2Pending = TRUE
  /\ curRun = 0
  /\ navCount = 0

Next ==
  \/ Commit
  \/ LocationChange
  \/ RetryClick
  \/ ContentRequest
  \/ \E c \in Calls : FetchRespond(c)
  \/ \E c \in Calls : FetchReject(c)
  \/ \E c \in Calls : BodyRead401(c)
  \/ \E c \in Calls : BodyReadErr(c)
  \/ \E c \in Calls : JsonDone(c)
  \/ \E c \in Calls : ResumeAfterRefresh(c)
  \/ \E c \in Calls : ContentObserve(c)
  \/ \E c \in Calls : BridgeContinue(c)
  \/ \E c \in Calls : GateThen(c)
  \/ \E c \in Calls : GateCatch(c)
  \/ \E p \in PromiseIds : RefreshFetchRespond(p)
  \/ \E p \in PromiseIds : RefreshFetchReject(p)
  \/ \E p \in PromiseIds : RefreshTextDone(p)
  \/ \E p \in PromiseIds : RefreshJsonDone(p)

Spec == Init /\ [][Next]_vars

\* What the runtime does by itself: React commits a pending render, every
\* network call settles, every continuation that is ready runs. The user's
\* steps (a new location, a retry, a page asking for content) are not forced.
Progress ==
  \/ Commit
  \/ \E c \in Calls : FetchRespond(c)
  \/ \E c \in Calls : FetchReject(c)
  \/ \E c \in Calls : BodyRead401(c)
  \/ \E c \in Calls : BodyReadErr(c)
  \/ \E c \in Calls : JsonDone(c)
  \/ \E c \in Calls : ResumeAfterRefresh(c)
  \/ \E c \in Calls : ContentObserve(c)
  \/ \E c \in Calls : BridgeContinue(c)
  \/ \E c \in Calls : GateThen(c)
  \/ \E c \in Calls : GateCatch(c)
  \/ \E p \in PromiseIds : RefreshFetchRespond(p)
  \/ \E p \in PromiseIds : RefreshFetchReject(p)
  \/ \E p \in PromiseIds : RefreshTextDone(p)
  \/ \E p \in PromiseIds : RefreshJsonDone(p)

\* every network call eventually settles and what is ready to run is run
FairSpec == Init /\ [][Next]_vars /\ WF_vars(Progress)

\* The module api.ts alone, called by any caller; no Gate is mounted.
InitApi ==
  /\ storageMode \in StorageModes
  /\ ls \in IF storageMode = "denied" THEN {Null} ELSE {Null, "T0"}
  /\ refreshPromise = 0
  /\ promises = [p \in PromiseIds |-> NoPromise]
  /\ calls = [c \in Calls |-> NoCall]
  /\ nCalls = 0
  /\ location = PlainLoc
  /\ status = "checking"
  /\ error = Null
  /\ retryKey = 0
  /\ sessionReady = FALSE
  /\ view = "none"
  /\ dirty = FALSE
  /\ e1Pending = FALSE
  /\ e2Pending = FALSE
  /\ curRun = 0
  /\ navCount = 0

NextApi ==
  \/ CallerRequest
  \/ CallerClear
  \/ \E c \in Calls : FetchRespond(c)
  \/ \E c \in Calls : FetchReject(c)
  \/ \E c \in Calls : BodyRead401(c)
  \/ \E c \in Calls : BodyReadErr(c)
  \/ \E c \in Calls : JsonDone(c)
  \/ \E c \in Calls : ResumeAfterRefresh(c)
  \/ \E c \in Calls : ContentObserve(c)
  \/ \E p \in PromiseIds : RefreshFetchRespond(p)
  \/ \E p \in PromiseIds : RefreshFetchReject(p)
  \/ \E p \in PromiseIds : RefreshTextDone(p)
  \/ \E p \in PromiseIds : RefreshJsonDone(p)

SpecApi == InitApi /\ [][NextApi]_vars


\* The extractor alone: useMemo (line 83) computes extractLinkToken for the
\* location at hand; its value is kept in the ltd slot of the first call record.
InitExtract ==
  /\ storageMode = "ok"
  /\ ls = Null
  /\ refreshPromise = 0
  /\ promises = [p \in PromiseIds |-> NoPromise]
  /\ calls = [c \in Calls |-> NoCall]
  /\ nCalls = 0
  /\ location \in ExtractLocations
  /\ status = "checking"
  /\ error = Null
  /\ retryKey = 0
  /\ sessionReady = FALSE
  /\ view = "none"
  /\ dirty = FALSE
  /\ e1Pending = FALSE
  /\ e2Pending = FALSE
  /\ curRun = 0
  /\ navCount = 0

Extract ==
  /\ calls[1].pc = "unused"
  /\ calls' = [calls EXCEPT ![1].pc = "extracted",
                            ![1].ltd = extractLinkToken(location),
                            ![1].locPathname = location.pathname]
  /\ UNCHANGED <<storageMode, ls, refreshPromise, promises, nCalls, gateVars>>

NextExtract == Extract

SpecExtract == InitExtract /\ [][NextExtract]_vars

\* The error normalisation alone: one apiFetch that may not refresh
\* (allowRefresh false) is answered with a non-ok status and any of the bodies.
InitNormalize ==
  /\ storageMode = "ok"
  /\ ls \in {Null, "T0"}
  /\ refreshPromise = 0
  /\ promises = [p \in PromiseIds |-> NoPromise]
  /\ calls = [c \in Calls |->
                IF c = 1 THEN Frame([NoCall EXCEPT !.path = ContentPath], FALSE)
                ELSE NoCall]
  /\ nCalls = 1
  /\ location = PlainLoc
  /\ status = "checking"
  /\ error = Null
  /\ retryKey = 0
  /\ sessionReady = FALSE
  /\ view = "none"
  /\ dirty = FALSE
  /\ e1Pending = FALSE
  /\ e2Pending = FALSE
  /\ curRun = 0
  /\ navCount = 0

NormalizeRespond == FetchResponds(1, ErrorStatuses)
NormalizeThrow == BodyReadsErr(1, NormalizeBodies)

NextNormalize == NormalizeRespond \/ NormalizeThrow

SpecNormalize == InitNormalize /\ [][NextNormalize]_vars

\* ------------------------------------------------------------------- claims
Started(c) == calls[c].pc \notin {"unused", "observed"}
Resumed(c) == Started(c) /\ calls[c].promise # 0 /\ calls[c].awaiting = 0

\* C1: at most one network exchange with the refresh endpoint is outstanding,
\* however many callers ask for a refresh: every caller that waits while an
\* exchange is pending waits for that one exchange.
C1_SingleRefreshInFlight ==
  /\ Cardinality(RefreshesInFlight) <= 1
  /\ \A c \in Calls :
       (calls[c].pc = "awaitRefresh" /\ promises[calls[c].awaiting].state = "pending")
         => /\ calls[c].awaiting = refreshPromise
            /\ RefreshesInFlight = {refreshPromise}

\* two callers wait for the same pending exchange, the second having joined
C1_Witness ==
  \E c, d \in Calls :
    /\ c # d
    /\ calls[c].pc = "awaitRefresh" /\ calls[d].pc = "awaitRefresh"
    /\ calls[c].awaiting = calls[d].awaiting
    /\ calls[d].joined
    /\ promises[calls[c].awaiting].state = "pending"

\* C2: a caller that asked for a refresh while one was in flight resolves to
\* the outcome of the call that started the exchange (the same token, or null).
C2_SameOutcome ==
  \A c, d \in Calls :
    (Resumed(c) /\ Resumed(d) /\ calls[c].promise = calls[d].promise)
      => calls[c].refreshed = calls[d].refreshed

\* the starter and a joiner have both resumed, with a new token
C2_Witness ==
  \E c, d \in Calls :
    /\ Resumed(c) /\ Resumed(d)
    /\ calls[c].promise = calls[d].promise
    /\ ~calls[c].joined /\ calls[d].joined
    /\ calls[c].refreshed \in RefreshTokens
    /\ calls[d].refreshed \in RefreshTokens

\* C3: after a refresh settles, however it ended, refreshPromise is null again:
\* whenever no exchange is outstanding the marker is clear.
C3_MarkerCleared == (RefreshesInFlight = {}) => (refreshPromise = 0)

\* C4: a refresh that failed because the network call threw or the answer was
\* not a success resolved to null and left the Token Store empty.
C4_FailureClearsStore ==
  \A p \in PromiseIds :
    (promises[p].state = "fulfilled" /\ promises[p].outcome \in {"reject", "nonok"})
      => /\ promises[p].value = Null
         /\ promises[p].storeAfter = Null


BridgeCall(c) == calls[c].kind = "bridge" /\ calls[c].pc # "unused"

C6_RetryOnce ==
  \A c \in Calls :
    Started(c) =>
      /\ Len(calls[c].sent) <= 2
      /\ calls[c].nRefresh <= 1
      /\ (/\ calls[c].pc = "failed"
          /\ Len(calls[c].resps) = 2
          /\ calls[c].resps[1].status = 401
          /\ calls[c].resps[2].status = 401)
           => /\ Len(calls[c].sent) = 2
              /\ calls[c].nRefresh = 1
              /\ Truthy(calls[c].refreshed)
              /\ calls[c].err = NormalizedMessage(calls[c].resps[2].body, 401)

\* a call failed after 401, a refresh with a token, and 401 again, the two
\* answers carrying different bodies
C6_Witness ==
  \E c \in Calls :
    /\ calls[c].pc = "failed"
    /\ Len(calls[c].resps) = 2
    /\ calls[c].resps[1].status = 401
    /\ calls[c].resps[2].status = 401
    /\ calls[c].resps[1].body # calls[c].resps[2].body
    /\ calls[c].err = "x"

\* C7: answered 401 with the refresh resolving to null, the call sends no second
\* request and fails with the normalised error of the 401 answer.
C7_RefreshFailureSilent ==
  \A c \in Calls :
    (/\ Resumed(c)
     /\ ~Truthy(calls[c].refreshed))
      => /\ calls[c].pc = "failed"
         /\ Len(calls[c].sent) = 1
         /\ Len(calls[c].resps) = 1
         /\ calls[c].resps[1].status = 401
         /\ calls[c].err = NormalizedMessage(calls[c].resps[1].body, 401)

\* a call failed after one 401 and a refresh that gave null
C7_Witness ==
  \E c \in Calls :
    /\ Resumed(c)
    /\ calls[c].refreshed = Null
    /\ calls[c].pc = "failed"
    /\ calls[c].err = "oops"

\* C8 as stated: the repeated request carries the token T the refresh yielded,
\* with the path and options of the first request.
C8_RetryCarriesNewToken ==
  \A c \in Calls :
    (Started(c) /\ Len(calls[c].sent) = 2)
      => /\ calls[c].sent[2].auth = calls[c].refreshed
         /\ calls[c].sent[2].path = calls[c].sent[1].path
         /\ calls[c].sent[2].body = calls[c].sent[1].body

\* C8 as amended: the repeated request has the path and options of the first
\* and carries what the Token Store returns when it is sent: T when the storage
\* took the write of T, otherwise the value stored before, or none.
C8_RetryCarriesStoredToken ==
  \A c \in Calls :
    (Started(c) /\ Len(calls[c].sent) = 2)
      => /\ calls[c].refreshed \in RefreshTokens
         /\ calls[c].sent[2].path = calls[c].sent[1].path
         /\ calls[c].sent[2].body = calls[c].sent[1].body
         /\ storageMode = "ok" => calls[c].sent[2].auth = calls[c].refreshed
         /\ storageMode # "ok" => calls[c].sent[2].auth \in {calls[c].sent[1].auth, Null}

\* a request first sent with an older token was repeated with the new one
C8_Witness ==
  \E c \in Calls :
    /\ Started(c) /\ Len(calls[c].sent) = 2
    /\ calls[c].sent[1].auth = "T0"
    /\ calls[c].sent[2].auth = calls[c].refreshed
    /\ calls[c].refreshed \in RefreshTokens


\* C9 as stated: when bridgeSession has resolved with access token X and its
\* caller is about to see the result, the Token Store holds X.
C9_StoreHoldsToken ==
  \A c \in Calls :
    calls[c].pc = "bridgeOk" => getStoredToken = calls[c].result

\* C9 as amended: at that moment setStoredToken(X) has run; the Token Store
\* holds X when the storage took the write, and is unchanged when it threw.
C9_StoreWrittenWhenWritable ==
  \A c \in Calls :
    calls[c].pc = "bridgeOk" =>
      /\ calls[c].result \in BridgeTokens
      /\ storageMode = "ok" => getStoredToken = calls[c].result
      /\ storageMode # "ok" => getStoredToken \in {Null, "T0"}

\* a bridge resolved with a token the store did not hold when the request left
C9_Witness ==
  \E c \in Calls :
    /\ calls[c].pc = "bridgeOk"
    /\ getStoredToken = calls[c].result
    /\ calls[c].sent[1].auth # calls[c].result

\* C10: a commit that runs the fallback effect on a location without a link
\* credential while the Token Store holds a credential puts the Gate in ready
\* and leaves the Token Store as it is.
C10_StoredSessionReady ==
  [][(/\ e2Pending /\ ~e2Pending'
      /\ ~HasLinkToken(location)
      /\ Truthy(getStoredToken))
       => (status' = "ready" /\ ls' = ls)]_vars

\* the answer a bridge call got for its latest request, as bridgeSession and
\* apiFetch turn it into the message of the error they throw
BridgeErrorMessage(c) ==
  IF Len(calls[c].resps) < Len(calls[c].sent) THEN NetworkErrorMessage
  ELSE IF ResOk(LastResp(c).status) THEN BridgeNoTokenMessage
  ELSE IF LastResp(c).body = BodyErrorX THEN "x"
  ELSE IF LastResp(c).body = BodyRaw THEN BodyRaw
  ELSE FallbackMessage(LastResp(c).status)

\* the then / catch of a bridge run that was not superseded runs in this step
ThenRuns(c) == calls[c].pc = "bridgeOk" /\ calls'[c].pc = "observed" /\ ~calls[c].cancelled
CatchRuns(c) == calls[c].pc = "bridgeFailed" /\ calls'[c].pc = "observed" /\ ~calls[c].cancelled

\* the call is a bridge that resolved with an access token
BridgeSucceeded(c) ==
  /\ calls[c].kind = "bridge"
  /\ calls[c].pc \in {"bridgeOk", "observed"}
  /\ calls[c].result \in BridgeTokens

\* C11: the commit that mounts the Gate on a location without a link credential
\* and with an empty Token Store puts it in error with the missing-session
\* message and leaves the store empty; it stays so until the user acts.
C11_MountWithoutSession ==
  [][/\ (/\ view = "none"
         /\ ~HasLinkToken(location)
         /\ getStoredToken = Null)
        => (/\ status' = "error"
            /\ error' = NO_SESSION_MESSAGE
            /\ GetStoredToken(storageMode', ls') = Null)
     /\ (/\ nCalls = 0 /\ view # "none"
         /\ status = "error" /\ error = NO_SESSION_MESSAGE
         /\ navCount = 0 /\ retryKey = 0
         /\ navCount' = 0 /\ retryKey' = 0)
        => (/\ status' = "error"
            /\ error' = NO_SESSION_MESSAGE
            /\ GetStoredToken(storageMode', ls') = Null)]_vars

\* the Gate shows the missing-session error after its mount, nothing else
\* having happened
C11_Witness ==
  /\ view = "error" /\ ~dirty
  /\ status = "error" /\ error = NO_SESSION_MESSAGE
  /\ nCalls = 0 /\ navCount = 0 /\ retryKey = 0
  /\ storageMode = "ok" /\ ls = Null

C13_SupersededChangesNothing ==
  [][\A c \in Calls :
       (/\ calls[c].kind = "bridge" /\ calls[c].cancelled
        /\ calls[c].pc \in {"done", "failed", "bridgeOk", "bridgeFailed"}
        /\ calls'[c].pc # calls[c].pc)
         => UNCHANGED <<status, error, sessionReady, ls, location>>]_vars

\* C14: whenever the Gate's state is ready the Token Store holds an access
\* credential.
C14_ReadyHasSession == status = "ready" => Truthy(getStoredToken)

\* C15: when the bridge of the current run fails, the Gate enters error showing
\* the message of the bridge's failure, does not become ready and does not
\* navigate.
C15_BridgeFailureShown ==
  [][\A c \in Calls :
       CatchRuns(c) =>
         /\ status = "linking" /\ status' = "error"
         /\ error' = BridgeErrorMessage(c)
         /\ sessionReady' = sessionReady
         /\ location' = location
         /\ HasLinkToken(location')]_vars

\* the error view shows the message of a non-success answer to the bridge
\* request, the URL still carrying the credential
C15_Witness ==
  /\ view = "error" /\ ~dirty
  /\ status = "error" /\ error = "x"
  /\ ~sessionReady
  /\ location = QueryLoc
  /\ navCount = 0 /\ retryKey = 0

\* C16: once a bridge has succeeded, a commit that runs the fallback effect on
\* a location without a link credential puts or leaves the Gate in ready and
\* does not clear the Token Store.
C16_ReadyAfterBridge ==
  [][(/\ Commit
      /\ e2Pending
      /\ ~HasLinkToken(location)
      /\ \E c \in Calls : BridgeSucceeded(c))
       => (status' = "ready" /\ ls' = ls)]_vars

\* C17: a commit renders the portal content only with the Gate's state ready
\* and a location that carries no link credential.
C17_PortalOnlyWhenBridged ==
  [][(Commit /\ view' = "portal")
       => (status = "ready" /\ ~HasLinkToken(location))]_vars

\* C18: the commit that follows a click on "Try again" in the error view (both
\* effects due) runs the decision again on the current location: with a link credential it enters linking and calls
\* the bridge with the credential extracted anew; without one and without an
\* established session it clears the Token Store and enters error with the
\* missing-session message.
C18_RetryRerunsDecision ==
  [][(/\ Commit
      /\ view = "error" /\ e1Pending /\ e2Pending)
       => LET data == extractLinkToken(location)
              c == nCalls + 1
          IN IF data.found
             THEN /\ status' = "linking" /\ error' = Null
                  /\ nCalls' = c /\ curRun' = c
                  /\ calls'[c].kind = "bridge" /\ calls'[c].pc = "fetch"
                  /\ calls'[c].sent = <<Request(BridgePath, data.token, getStoredToken)>>
                  /\ ls' = ls
             ELSE /\ nCalls' = nCalls
                  /\ ~sessionReady =>
                       /\ status' = "error" /\ error' = NO_SESSION_MESSAGE
                       /\ GetStoredToken(storageMode', ls') = Null
                  /\ sessionReady => status' = "ready"]_vars

\* after a failed bridge and one click the Gate is linking again, a second
\* bridge request in flight
C18_Witness ==
  /\ retryKey = 1 /\ navCount = 0
  /\ status = "linking" /\ view = "linking"
  /\ nCalls = 2 /\ curRun = 2
  /\ calls[2].kind = "bridge" /\ calls[2].pc = "fetch"
  /\ calls[1].pc = "observed"

\* C19: a request that apiFetch sends in a step carries as bearer value what
\* the Token Store returns in that step, none when it returns nothing.
C19_BearerIsStoredToken ==
  [][\A c \in Calls :
       Len(calls'[c].sent) > Len(calls[c].sent)
         => /\ calls'[c].sent[Len(calls'[c].sent)].auth = getStoredToken
            /\ calls'[c].sent[Len(calls'[c].sent)].auth
                 = GetStoredToken(storageMode', ls')]_vars

\* a bridge request first sent with the stored token of an earlier session,
\* then repeated with the token a refresh stored
C19_Witness ==
  \E c \in Calls :
    /\ calls[c].kind = "bridge" /\ Started(c)
    /\ Len(calls[c].sent) = 2
    /\ calls[c].sent[1].auth = "T0"
    /\ calls[c].sent[2].auth \in RefreshTokens
    /\ getStoredToken = calls[c].sent[2].auth

\* C20 as stated: a refresh that resolved to a token T left T in the Token
\* Store, and a caller about to resume reads T from it.
C20_StoreHoldsRefreshed ==
  /\ \A p \in PromiseIds :
       (promises[p].state = "fulfilled" /\ Truthy(promises[p].value))
         => promises[p].storeAfter = promises[p].value
  /\ \A c \in Calls :
       (RefreshSettledFor(c) /\ Truthy(AwaitedValue(c)))
         => getStoredToken = AwaitedValue(c)

\* C20 as amended: setStoredToken(T) ran before the refresh resolved; the store
\* holds T, and resuming callers read T, when the storage took the write;
\* otherwise they read what it held before, or nothing.
C20_StoreWrittenWhenWritable ==
  /\ \A p \in PromiseIds :
       (promises[p].state = "fulfilled" /\ Truthy(promises[p].value))
         => /\ promises[p].outcome = "token"
            /\ storageMode = "ok" => promises[p].storeAfter = promises[p].value
            /\ storageMode # "ok" => promises[p].storeAfter \in {Null, "T0"}
  /\ \A c \in Calls :
       (RefreshSettledFor(c) /\ Truthy(AwaitedValue(c)))
         => /\ storageMode = "ok" => getStoredToken = AwaitedValue(c)
            /\ storageMode # "ok" => getStoredToken \in {Null, "T0"}

\* the starter and a joiner of one refresh are about to resume, the store
\* holding the new token instead of the one their requests carried
C20_Witness ==
  \E c, d \in Calls :
    /\ c # d
    /\ RefreshSettledFor(c) /\ RefreshSettledFor(d)
    /\ calls[c].awaiting = calls[d].awaiting
    /\ calls[d].joined
    /\ AwaitedValue(c) \in RefreshTokens
    /\ getStoredToken = AwaitedValue(c)
    /\ calls[c].sent[1].auth = "T0"

\* C21: the body of every response an apiFetch call received has been read from
\* the response at most once, on every path.
C21_BodyReadOnce ==
  \A c \in Calls :
    Started(c) =>
      \A i \in 1..Len(calls[c].resps) :
        /\ calls[c].resps[i].reads <= 1
        /\ calls[c].pc \in {"done", "failed"} => calls[c].resps[i].reads = 1

\* a call failed after a 401 and a refresh that gave nothing: its error was
\* built from the text read before the refresh
C21_Witness ==
  \E c \in Calls :
    /\ calls[c].pc = "failed" /\ Resumed(c)
    /\ ~Truthy(calls[c].refreshed)
    /\ Len(calls[c].resps) = 1
    /\ calls[c].resps[1].reads = 1
    /\ calls[c].consumedBody = calls[c].resps[1].body
    /\ calls[c].err = NormalizedMessage(calls[c].consumedBody, calls[c].resps[1].status)

\* C22: with a storage that throws on every access, getStoredToken returns null,
\* setStoredToken and clearStoredToken return normally and leave the item as it
\* is, and no storage exception shows in a request, in the failure of a call or
\* in the Gate's error.
C22_StorageErrorsSwallowed ==
  storageMode = "denied" =>
    /\ getStoredToken = Null
    /\ ~Caught(StorageGetItem(storageMode, ls), Null).threw
    /\ \A t \in RefreshTokens \cup BridgeTokens :
         /\ ~Caught(StorageSetItem(storageMode, ls, t), Null).threw
         /\ setStoredToken(t) = ls
    /\ ~Caught(StorageRemoveItem(storageMode, ls), Null).threw
    /\ clearStoredToken = ls
    /\ error # StorageException
    /\ \A c \in Calls :
         /\ calls[c].err # StorageException
         /\ calls[c].refreshed # StorageException
         /\ \A i \in 1..Len(calls[c].sent) : calls[c].sent[i].auth = Null

\* with such a storage a bridge succeeded and the portal is shown, the store
\* reading as empty
C22_Witness ==
  /\ storageMode = "denied"
  /\ status = "ready" /\ sessionReady /\ view = "portal"
  /\ getStoredToken = Null
  /\ \E c \in Calls : BridgeSucceeded(c) /\ calls[c].pc = "observed"

\* C23: bridgeSession rejects when its request failed, with the failure of the
\* request, and when the answer carries no access token, with its own message;
\* in the second case it leaves the Token Store as it is.
C23_BridgeRejects ==
  [][\A c \in Calls :
       (/\ calls[c].kind = "bridge"
        /\ calls[c].pc \in {"done", "failed"}
        /\ calls'[c].pc # calls[c].pc)
         => /\ calls[c].pc = "failed" =>
                 /\ calls'[c].pc = "bridgeFailed"
                 /\ calls'[c].err = calls[c].err
            /\ (calls[c].pc = "done" /\ calls[c].result = NoToken) =>
                 /\ calls'[c].pc = "bridgeFailed"
                 /\ calls'[c].err = BridgeNoTokenMessage
                 /\ ls' = ls
            /\ calls'[c].pc = "bridgeOk" => calls[c].result \in BridgeTokens]_vars

\* the bridge request was answered with a success that carries no access
\* token: bridgeSession has rejected, the stored token of an earlier session
\* still in place
C23_Witness ==
  \E c \in Calls :
    /\ calls[c].kind = "bridge" /\ calls[c].pc = "bridgeFailed"
    /\ calls[c].err = BridgeNoTokenMessage
    /\ ResOk(LastResp(c).status)
    /\ getStoredToken = "T0"

\* What a list of pieces says, read piece by piece.
PieceName(piece) == <<piece[1]>>
PieceValue(piece) == SubSeq(piece, 3, Len(piece))
IsTokenPiece(piece) == PieceName(piece) = TokenName
IsOtherPiece(piece) == ~IsTokenPiece(piece)
WrittenOut(piece) == PieceName(piece) \o <<"=">> \o PieceValue(piece)

RECURSIVE WriteAll(_)
WriteAll(ps) ==
  IF ps = <<>> THEN <<>>
  ELSE IF Len(ps) = 1 THEN WrittenOut(ps[1])
  ELSE WrittenOut(ps[1]) \o <<"&">> \o WriteAll(Tail(ps))

\* the parameters other than token, in their order, written name=value
Remaining(ps) == WriteAll(SelectSeq(ps, IsOtherPiece))

\* the value of the first token parameter, <<>> when there is none
FirstToken(ps) ==
  LET ts == SelectSeq(ps, IsTokenPiece)
  IN IF ts = <<>> THEN <<>> ELSE PieceValue(ts[1])

CarriesToken(ps) == \E i \in 1..Len(ps) : IsTokenPiece(ps[i])
CarriesNonEmptyToken(ps) ==
  \E i \in 1..Len(ps) : IsTokenPiece(ps[i]) /\ PieceValue(ps[i]) # <<>>

Extracted == calls[1].pc = "extracted"

\* C24 as stated: for a query that carries a non-empty token parameter the
\* extractor returns that value, the other parameters in their order as the
\* cleaned query, the hash unmodified and the current pathname.
C24_QueryTokenExtracted ==
  Extracted =>
    \A ps \in PieceLists(SearchPieces) :
      (location.search = SearchOf(ps) /\ CarriesNonEmptyToken(ps)) =>
        /\ calls[1].ltd.found
        /\ \E i \in 1..Len(ps) :
             IsTokenPiece(ps[i]) /\ calls[1].ltd.token = PieceValue(ps[i])
        /\ calls[1].ltd.cleanedSearch = Remaining(ps)
        /\ calls[1].ltd.cleanedHash = location.hash

\* C24 as amended: the same for a query whose first token parameter is not
\* empty, the value returned being that first one.
C24_FirstQueryTokenExtracted ==
  Extracted =>
    \A ps \in PieceLists(SearchPieces) :
      (location.search = SearchOf(ps) /\ FirstToken(ps) # <<>>) =>
        /\ calls[1].ltd.found
        /\ calls[1].ltd.token = FirstToken(ps)
        /\ calls[1].ltd.cleanedSearch = Remaining(ps)
        /\ calls[1].ltd.cleanedHash = location.hash
        /\ calls[1].ltd.targetPathname = location.pathname

\* the query ?token=L1&x=1 before a hash that carries its own token
C24_Witness ==
  /\ Extracted
  /\ location.search = <<"?", "token", "=", "L1", "&", "x", "=", "1">>
  /\ location.hash = <<"#", "/", "p", "?", "token", "=", "L2">>
  /\ calls[1].ltd.token = <<"L1">>
  /\ calls[1].ltd.cleanedSearch = <<"x", "=", "1">>
  /\ calls[1].ltd.cleanedHash = location.hash

\* the target path for a hash path: "/" put in front when missing, the current
\* pathname when the hash has no path
TargetFor(path, pathname) ==
  IF path = <<>> THEN pathname
  ELSE IF path[1] = "/" THEN path ELSE <<"/">> \o path

\* C25 as stated: with no token in the query and a hash #<path>?<query> whose
\* query carries token, the extractor returns that value, the cleaned hash
\* #<path> or #<path>?<remaining>, and the target path; with no token in query
\* or hash it returns null.
C25_HashTokenExtracted ==
  Extracted =>
    \A qs \in PieceLists(SearchPieces) :
      (location.search = SearchOf(qs) /\ ~CarriesToken(qs)) =>
        /\ \A path \in HashPaths, ps \in PieceLists(HashPieces) :
             (location.hash = HashOf(path, ps) /\ CarriesToken(ps)) =>
               /\ calls[1].ltd.found
               /\ \E i \in 1..Len(ps) :
                    IsTokenPiece(ps[i]) /\ calls[1].ltd.token = PieceValue(ps[i])
               /\ calls[1].ltd.cleanedHash =
                    <<"#">> \o path \o
                      (IF Remaining(ps) = <<>> THEN <<>> ELSE <<"?">> \o Remaining(ps))
               /\ calls[1].ltd.targetPathname = TargetFor(path, location.pathname)
        /\ (\/ location.hash = <<>>
            \/ \E path \in HashPaths, ps \in PieceLists(HashPieces) :
                 location.hash = HashOf(path, ps) /\ ~CarriesToken(ps))
             => ~calls[1].ltd.found

\* C25 as amended: the same for a query whose first token parameter is missing
\* or empty and a hash query whose first token parameter is not empty; the
\* cleaned hash is empty when neither a path nor another parameter remains; the
\* extractor returns null exactly when neither first token parameter has a value.
C25_FirstHashTokenExtracted ==
  Extracted =>
    \A qs \in PieceLists(SearchPieces) :
      (location.search = SearchOf(qs) /\ FirstToken(qs) = <<>>) =>
        /\ \A path \in HashPaths, ps \in PieceLists(HashPieces) :
             (location.hash = HashOf(path, ps) /\ FirstToken(ps) # <<>>) =>
               /\ calls[1].ltd.found
               /\ calls[1].ltd.token = FirstToken(ps)
               /\ calls[1].ltd.cleanedHash =
                    (IF path = <<>> /\ Remaining(ps) = <<>> THEN <<>>
                     ELSE <<"#">> \o path \o
                       (IF Remaining(ps) = <<>> THEN <<>> ELSE <<"?">> \o Remaining(ps)))
               /\ calls[1].ltd.targetPathname = TargetFor(path, location.pathname)
        /\ (\/ location.hash = <<>>
            \/ \E path \in HashPaths, ps \in PieceLists(HashPieces) :
                 location.hash = HashOf(path, ps) /\ FirstToken(ps) = <<>>)
             => ~calls[1].ltd.found

\* the hash #p?token=L2&y=2 after an empty query: the path gets its "/"
C25_Witness ==
  /\ Extracted
  /\ location.search = <<>>
  /\ location.hash = <<"#", "p", "?", "token", "=", "L2", "&", "y", "=", "2">>
  /\ calls[1].ltd.token = <<"L2">>
  /\ calls[1].ltd.cleanedHash = <<"#", "p", "?", "y", "=", "2">>
  /\ calls[1].ltd.targetPathname = <<"/", "p">>

\* the first element of errors, when errors is a sequence that has one; errors
\* itself when it is a text
FirstOfErrors(parsed) ==
  IF parsed.errorsArr
  THEN IF Len(parsed.errorsItems) > 0 THEN parsed.errorsItems[1] ELSE Null
  ELSE parsed.errors

\* C26: the message of the error thrown for a non-success response is the first
\* that is present of: detail (a sequence joined with the separator, otherwise
\* used directly), message, error, the first element of errors, the raw body
\* text, the fallback naming the status.
C26_MessagePriority ==
  (calls[1].pc = "failed" /\ calls[1].consumedBody # Null) =>
    LET bodyText == calls[1].consumedBody
        parsed == JSONParse(bodyText)
        detail == IF parsed.detailArr THEN JoinItems(parsed.detailItems)
                  ELSE parsed.detail
    IN calls[1].err =
         Or(detail, Or(parsed.message, Or(parsed.error, Or(FirstOfErrors(parsed),
            Or(bodyText, FallbackMessage(calls[1].resps[1].status))))))

\* the call d, answered 401, asks for a refresh in this step
AsksRefresh(d) == calls[d].pc = "body401" /\ calls'[d].pc = "awaitRefresh"

\* C27: calls answered 401 while the refresh started by the first of them is
\* still outstanding start no exchange of their own: they wait for that one
\* exchange; and every call that waited is then either repeated exactly once
\* (the refresh gave a token) or failed without being repeated (it gave null).
C27_OneRefreshForAll ==
  [][/\ \A d \in Calls :
          (AsksRefresh(d) /\ RefreshesInFlight # {}) =>
             /\ RefreshesInFlight' = RefreshesInFlight
             /\ \A p \in PromiseIds : promises'[p] = promises[p]
             /\ calls'[d].awaiting \in RefreshesInFlight
             /\ calls'[d].joined
             /\ calls'[d].nRefresh = 1
      /\ \A c \in Calls :
          Resumed(c)' =>
             /\ calls'[c].nRefresh = 1
             /\ Truthy(calls'[c].refreshed) => Len(calls'[c].sent) = 2
             /\ ~Truthy(calls'[c].refreshed) =>
                  (Len(calls'[c].sent) = 1 /\ calls'[c].pc = "failed")]_vars

\* the starter and a joiner of one exchange that gave null have both failed
\* after their one request
C27_Witness ==
  \E c, d \in Calls :
    /\ Resumed(c) /\ Resumed(d)
    /\ calls[c].promise = calls[d].promise
    /\ ~calls[c].joined /\ calls[d].joined
    /\ calls[c].refreshed = Null /\ calls[d].refreshed = Null
    /\ calls[c].pc = "failed" /\ calls[d].pc = "failed"
    /\ Len(calls[c].sent) = 1 /\ Len(calls[d].sent) = 1

\* C29: a refresh answered with a success status but without an access token
\* clears the Token Store and resolves to null, and a request that waited for it
\* is not repeated: it fails after its one request.
C29_NoTokenRefreshFails ==
  [][/\ \A p \in PromiseIds :
          (promises'[p].state = "fulfilled" /\ promises'[p].outcome = "notoken") =>
             /\ promises'[p].value = Null
             /\ promises'[p].storeAfter = Null
      /\ \A c \in Calls :
          (/\ RefreshSettledFor(c)
           /\ promises[calls[c].awaiting].outcome = "notoken"
           /\ calls'[c].awaiting = 0) =>
             /\ calls'[c].refreshed = Null
             /\ calls'[c].pc = "failed"
             /\ calls'[c].sent = calls[c].sent]_vars

\* a request sent with a stored token waits for a refresh that was answered
\* without a token: the store is empty now
C29_Witness ==
  \E c \in Calls :
    /\ RefreshSettledFor(c)
    /\ promises[calls[c].awaiting].outcome = "notoken"
    /\ calls[c].sent[1].auth = "T0"
    /\ ls = Null

\* C28: when every network call eventually settles and the location eventually
\* stops changing, the Gate does not stay in checking or linking forever: it
\* reaches ready or error; and checking is never entered again once left.
C28_GateSettles ==
  /\ (status \in {"checking", "linking"}) ~> (status \in {"ready", "error"})
  /\ [][status # "checking" => status' # "checking"]_vars

\* after a location change and a retry the last bridge run was rejected and the
\* Gate shows the error, with nothing left to run
C28_Witness ==
  /\ status = "error" /\ view = "error" /\ ~dirty
  /\ navCount = MaxNav /\ retryKey = MaxRetry
  /\ curRun # 0 /\ calls[curRun].pc = "observed"
  /\ \A c \in Calls : calls[c].pc \in {"unused", "observed"}


====
